---- MODULE Spec2Model ----
(***************************************************************************)
(* Model of logstash/__init__.py: the Redis output sink (RedisSink), its   *)
(* construction, its log() delivery protocol with backoff, reconnect and   *)
(* one retry, and the Redis list it appends to.                            *)
(*                                                                         *)
(* A log() call is a sequence of steps of the calling thread, one per      *)
(* statement of the method that touches the sink's fields or the backend.  *)
(* The backend answers every operation nondeterministically: it succeeds,  *)
(* or fails as a timeout, a refused connection or a malformed response.    *)
(* A refused append never reaches the server; a timed-out append may or    *)
(* may not have been executed by the server before the client gave up      *)
(* (socket_timeout=30), and likewise an append whose reply is malformed.   *)
(***************************************************************************)
EXTENDS Integers, Sequences, FiniteSets, TLC

\* ---------------------------------------------------------------- bounds
\* Number of log() calls made on the sink.
MaxCalls == 3

\* Number of lines the console sink writes.
MaxLines == 3

\* Number of distinct JSON values a key of the config document may hold.
MaxCfgVal == 7

\* ------------------------------------------------------------- constants
DEFAULT_RETRY == 10
DEFAULT_PORT == 6379

Threads == {"t1", "t2"}
Hosts == {"localhost"}
Keys == {"events", "audit"}
Ports == {DEFAULT_PORT}

\* The connection value before _connect() ran (self._conn = None).
None == 0

\* Failure modes of a backend operation and the exception redis-py raises.
Failures == {"timeout", "refused", "malformed"}

ExcOf(res) ==
  CASE res = "timeout" -> "TimeoutError"
    [] res = "refused" -> "ConnectionError"
    [] res = "malformed" -> "InvalidResponse"

\* Outcomes of rpush: the result seen by the client, and whether the server
\* executed the append.
AppendOutcomes ==
  { [res |-> "ok", applied |-> TRUE],
    [res |-> "refused", applied |-> FALSE] }
  \cup { [res |-> f, applied |-> a] : f \in {"timeout", "malformed"}, a \in BOOLEAN }

\* Outcomes of ping.
PingOutcomes == {"ok"} \cup Failures

VARIABLES
  sink,      \* "none" before construction, "ok" constructed, "failed" constructor raised
  backoff,   \* self._backoff
  conn,      \* self._conn: identity of the connection object, None before _connect
  host,      \* self.host
  port,      \* self.port
  key,       \* self.key
  nextConn,  \* identity of the next connection object redis.StrictRedis() builds
  store,     \* the backend: the list held at each key
  calls,     \* number of log() calls started; the n-th call logs record n
  pc,        \* per thread: position inside log()
  rec,       \* per thread: the record (kwargs) of the call in progress, 0 if none
  result,    \* per thread: "none", or how the call ended: "returned" / "raised"
  ev,        \* per thread: what the call in progress did, in order
  entry,     \* per thread: backoff and store at the entry of the call
  fails,     \* number of calls in a row whose primary append failed
  ctorPing,  \* outcome of the ping made by the constructor, "none" before
  tmp,       \* per thread: the value of self._backoff read for the doubling
  stdout,    \* the lines written to standard output
  outRes,    \* how the last StdoutSink.log() call ended, "none" before
  cfgDoc,    \* the content of the config file handed to read_config, "none" before
  cfgOut     \* what read_config did with it, "none" before

vars == << sink, backoff, conn, host, port, key, nextConn, store, calls,
           pc, rec, result, ev, entry, fails, ctorPing, tmp,
           stdout, outRes, cfgDoc, cfgOut >>

sinkVars == << sink, backoff, conn, host, port, key, ctorPing >>

\* The state of the console sink's output and of read_config.
ioVars == << stdout, outRes, cfgDoc, cfgOut >>

\* One thing a call did.
Ev(op, c, res, applied, secs) ==
  [op |-> op, conn |-> c, res |-> res, applied |-> applied, secs |-> secs]

NoEntry ==
  [backoff |-> 0, store |-> <<>>, conn |-> None, host |-> "", port |-> 0, key |-> ""]

\* The sink and the backend as a call finds them.
Entry ==
  [backoff |-> backoff, store |-> store, conn |-> conn, host |-> host,
   port |-> port, key |-> key]

\* read_config was not called yet.
NoDoc == [kind |-> "none", input |-> 0, output |-> 0, other |-> FALSE]

NoCfg == [kind |-> "none", status |-> 0, exc |-> "", value |-> <<>>]

\* No call of the console sink was made yet.
NoOut == [rec |-> <<>>, res |-> "none"]

Init ==
  /\ sink = "none"
  /\ backoff = 0
  /\ conn = None
  /\ host = "" /\ port = 0 /\ key = ""
  /\ nextConn = 1
  /\ store = [k \in Keys |-> <<>>]
  /\ calls = 0
  /\ pc = [t \in Threads |-> "idle"]
  /\ rec = [t \in Threads |-> 0]
  /\ result = [t \in Threads |-> "none"]
  /\ ev = [t \in Threads |-> <<>>]
  /\ entry = [t \in Threads |-> NoEntry]
  /\ fails = 0
  /\ ctorPing = "none"
  /\ tmp = [t \in Threads |-> 0]
  /\ stdout = <<>>
  /\ outRes = NoOut
  /\ cfgDoc = NoDoc
  /\ cfgOut = NoCfg

\* ------------------------------------------------------------ exceptions
\* The exception classes that are redis.exceptions.RedisError or a subclass.
RedisErrors == {"TimeoutError", "ConnectionError", "InvalidResponse"}

IsRedisError_onlyConnection(exc) == exc = "ConnectionError"

\* except redis.exceptions.RedisError as e: whether the handler catches exc.
IsRedisError(exc) == exc \in RedisErrors

\* except Exception as e1: whether the handler catches exc.
IsException(exc) == TRUE

\* --------------------------------------------------------------- backend
lpush(list, value) == <<value>> \o list

\* RPUSH key value: append value at the tail of the list.
rpush(list, value) == Append(list, value)

\* The store after an append of value at key k with outcome o.
Pushed(k, value, o) ==
  IF o.applied THEN [store EXCEPT ![k] = rpush(@, value)] ELSE store

\* ------------------------------------------------------------- backoff
Double_plusDefault(b) == b + DEFAULT_RETRY

\* self._backoff * 2
Double(b) == b * 2

\* ---------------------------------------------------------- construction
Construct_swallows ==
  /\ sink = "none"
  /\ \E h \in Hosts, k \in Keys, p \in Ports, o \in PingOutcomes :
       /\ backoff' = DEFAULT_RETRY
       /\ host' = h /\ port' = p /\ key' = k
       /\ conn' = nextConn
       /\ nextConn' = nextConn + 1
       /\ ctorPing' = o
       /\ sink' = "ok"
  /\ UNCHANGED << ioVars, tmp, store, calls, pc, rec, result, ev, entry, fails >>

\* RedisSink(host, key, port): __init__ sets the fields and calls _connect(),
\* which builds the connection object and pings; a ping failure raises out of
\* the constructor, so the caller gets no instance.
Construct ==
  /\ sink = "none"
  /\ \E h \in Hosts, k \in Keys, p \in Ports, o \in PingOutcomes :
       /\ backoff' = DEFAULT_RETRY
       /\ host' = h /\ port' = p /\ key' = k
       /\ conn' = nextConn
       /\ nextConn' = nextConn + 1
       /\ ctorPing' = o
       /\ sink' = IF o = "ok" THEN "ok" ELSE "failed"
  /\ UNCHANGED << ioVars, tmp, store, calls, pc, rec, result, ev, entry, fails >>

\* ------------------------------------------------------------------- log
\* The caller invokes sink.log(**kwargs) with the next record. Callers are
\* sequential: a call starts only when no other call is in progress.
LogCall(t) ==
  /\ sink = "ok"
  /\ calls < MaxCalls
  /\ \A u \in Threads : pc[u] = "idle"
  /\ calls' = calls + 1
  /\ pc' = [pc EXCEPT ![t] = "rpush"]
  /\ rec' = [rec EXCEPT ![t] = calls + 1]
  /\ result' = [result EXCEPT ![t] = "none"]
  /\ ev' = [ev EXCEPT ![t] = <<>>]
  /\ entry' = [entry EXCEPT ![t] = Entry]
  /\ UNCHANGED << ioVars, tmp, sinkVars, nextConn, store, fails >>

LogPrimary_alwaysReconnects(t) ==
  /\ pc[t] = "rpush"
  /\ \E o \in AppendOutcomes :
       /\ store' = Pushed(key, rec[t], o)
       /\ ev' = [ev EXCEPT ![t] = Append(@, Ev("rpush", conn, o.res, o.applied, 0))]
       /\ IF o.res = "ok"
            THEN /\ backoff' = DEFAULT_RETRY
                 /\ fails' = 0
                 /\ pc' = [pc EXCEPT ![t] = "connect"]
                 /\ result' = result
            ELSE /\ backoff' = backoff
                 /\ fails' = fails + 1
                 /\ pc' = [pc EXCEPT ![t] = "sleep"]
                 /\ result' = result
  /\ UNCHANGED << ioVars, tmp, sink, conn, host, port, key, ctorPing, nextConn, calls,
                  rec, entry >>

\* try: self._conn.rpush(self.key, json.dumps(kwargs)); self._backoff = DEFAULT_RETRY
\* except redis.exceptions.RedisError as e: log_output.error(...)
LogPrimary(t) ==
  /\ pc[t] = "rpush"
  /\ \E o \in AppendOutcomes :
       /\ store' = Pushed(key, rec[t], o)
       /\ ev' = [ev EXCEPT ![t] = Append(@, Ev("rpush", conn, o.res, o.applied, 0))]
       /\ IF o.res = "ok"
            THEN /\ backoff' = DEFAULT_RETRY
                 /\ fails' = 0
                 /\ pc' = [pc EXCEPT ![t] = "done"]
                 /\ result' = [result EXCEPT ![t] = "returned"]
            ELSE /\ backoff' = backoff
                 /\ fails' = fails + 1
                 /\ IF IsRedisError(ExcOf(o.res))
                      THEN /\ pc' = [pc EXCEPT ![t] = "sleep"]
                           /\ result' = result
                      ELSE /\ pc' = [pc EXCEPT ![t] = "done"]
                           /\ result' = [result EXCEPT ![t] = "raised"]
  /\ UNCHANGED << ioVars, tmp, sink, conn, host, port, key, ctorPing, nextConn, calls, rec, entry >>

LogSleep_afterDouble(t) ==
  /\ pc[t] = "sleep"
  /\ ev' = [ev EXCEPT ![t] = Append(@, Ev("sleep", conn, "ok", FALSE, Double(backoff)))]
  /\ pc' = [pc EXCEPT ![t] = "double"]
  /\ UNCHANGED << ioVars, tmp, sinkVars, nextConn, store, calls, rec, result, entry, fails >>

\* time.sleep(self._backoff)
LogSleep(t) ==
  /\ pc[t] = "sleep"
  /\ ev' = [ev EXCEPT ![t] = Append(@, Ev("sleep", conn, "ok", FALSE, backoff))]
  /\ pc' = [pc EXCEPT ![t] = "double"]
  /\ UNCHANGED << ioVars, tmp, sinkVars, nextConn, store, calls, rec, result, entry, fails >>

\* self._backoff * 2: the value of self._backoff is read
LogDoubleRead(t) ==
  /\ pc[t] = "double"
  /\ tmp' = [tmp EXCEPT ![t] = backoff]
  /\ pc' = [pc EXCEPT ![t] = "assign"]
  /\ UNCHANGED << ioVars, sinkVars, nextConn, store, calls, rec, result, ev, entry,
                  fails >>

\* self._backoff = self._backoff * 2: the doubled value is assigned
LogDouble(t) ==
  /\ pc[t] = "assign"
  /\ backoff' = Double(tmp[t])
  /\ tmp' = [tmp EXCEPT ![t] = 0]
  /\ ev' = [ev EXCEPT ![t] = Append(@, Ev("double", conn, "ok", FALSE, 0))]
  /\ pc' = [pc EXCEPT ![t] = "connect"]
  /\ UNCHANGED << ioVars, sink, conn, host, port, key, ctorPing, nextConn, store, calls,
                  rec, result, entry, fails >>

\* _connect(): self._conn = redis.StrictRedis(host, port, db=0, socket_timeout=30)
LogConnect(t) ==
  /\ pc[t] = "connect"
  /\ conn' = nextConn
  /\ nextConn' = nextConn + 1
  /\ ev' = [ev EXCEPT ![t] = Append(@, Ev("connect", nextConn, "ok", FALSE, 0))]
  /\ pc' = [pc EXCEPT ![t] = "ping"]
  /\ UNCHANGED << ioVars, tmp, sink, backoff, host, port, key, ctorPing, store, calls, rec,
                  result, entry, fails >>

LogPing_noRetry(t) ==
  /\ pc[t] = "ping"
  /\ \E o \in PingOutcomes :
       /\ ev' = [ev EXCEPT ![t] = Append(@, Ev("ping", conn, o, FALSE, 0))]
       /\ pc' = [pc EXCEPT ![t] = "done"]
       /\ result' = [result EXCEPT ![t] = "returned"]
  /\ UNCHANGED << ioVars, tmp, sinkVars, nextConn, store, calls, rec, entry, fails >>

LogPing_reconnectAgain(t) ==
  /\ pc[t] = "ping"
  /\ \E o \in PingOutcomes :
       /\ ev' = [ev EXCEPT ![t] = Append(@, Ev("ping", conn, o, FALSE, 0))]
       /\ IF o = "ok"
            THEN /\ pc' = [pc EXCEPT ![t] = "retry"]
                 /\ result' = result
            ELSE IF Len(ev[t]) < 6
              THEN /\ pc' = [pc EXCEPT ![t] = "connect"]
                   /\ result' = result
              ELSE /\ pc' = [pc EXCEPT ![t] = "done"]
                   /\ result' = [result EXCEPT ![t] = "returned"]
  /\ UNCHANGED << ioVars, tmp, sinkVars, nextConn, store, calls, rec, entry, fails >>

LogPing_restores(t) ==
  /\ pc[t] = "ping"
  /\ \E o \in PingOutcomes :
       /\ ev' = [ev EXCEPT ![t] = Append(@, Ev("ping", conn, o, FALSE, 0))]
       /\ conn' = IF o = "ok" THEN conn ELSE entry[t].conn
       /\ IF o = "ok"
            THEN /\ pc' = [pc EXCEPT ![t] = "retry"]
                 /\ result' = result
            ELSE /\ pc' = [pc EXCEPT ![t] = "done"]
                 /\ result' = [result EXCEPT ![t] = "returned"]
  /\ UNCHANGED << ioVars, tmp, sink, backoff, host, port, key, ctorPing, nextConn,
                  store, calls, rec, entry, fails >>

LogPing_retriesAnyway(t) ==
  /\ pc[t] = "ping"
  /\ \E o \in PingOutcomes :
       /\ ev' = [ev EXCEPT ![t] = Append(@, Ev("ping", conn, o, FALSE, 0))]
       /\ pc' = [pc EXCEPT ![t] = "retry"]
       /\ result' = result
  /\ UNCHANGED << ioVars, tmp, sinkVars, nextConn, store, calls, rec, entry, fails >>

\* _connect(): self._conn.ping(); a failure is caught by "except Exception as e1"
LogPing(t) ==
  /\ pc[t] = "ping"
  /\ \E o \in PingOutcomes :
       /\ ev' = [ev EXCEPT ![t] = Append(@, Ev("ping", conn, o, FALSE, 0))]
       /\ IF o = "ok"
            THEN /\ pc' = [pc EXCEPT ![t] = "retry"]
                 /\ result' = result
            ELSE /\ pc' = [pc EXCEPT ![t] = "done"]
                 /\ result' = [result EXCEPT ![t] =
                                 IF IsException(ExcOf(o)) THEN "returned" ELSE "raised"]
  /\ UNCHANGED << ioVars, tmp, sinkVars, nextConn, store, calls, rec, entry, fails >>

LogRetry_again(t) ==
  /\ pc[t] = "retry"
  /\ \E o \in AppendOutcomes :
       /\ store' = Pushed(key, rec[t], o)
       /\ ev' = [ev EXCEPT ![t] = Append(@, Ev("rpush", conn, o.res, o.applied, 0))]
       /\ IF o.res # "ok" /\ Len(ev[t]) < 6
            THEN /\ pc' = [pc EXCEPT ![t] = "sleep"]
                 /\ result' = result
            ELSE /\ pc' = [pc EXCEPT ![t] = "done"]
                 /\ result' = [result EXCEPT ![t] = "returned"]
  /\ UNCHANGED << ioVars, tmp, sinkVars, nextConn, calls, rec, entry, fails >>

\* self._conn.rpush(self.key, json.dumps(kwargs)) after the reconnect;
\* a failure is caught by "except Exception as e1" and only logged.
LogRetry(t) ==
  /\ pc[t] = "retry"
  /\ \E o \in AppendOutcomes :
       /\ store' = Pushed(key, rec[t], o)
       /\ ev' = [ev EXCEPT ![t] = Append(@, Ev("rpush", conn, o.res, o.applied, 0))]
       /\ pc' = [pc EXCEPT ![t] = "done"]
       /\ result' = [result EXCEPT ![t] =
                       IF o.res = "ok" \/ IsException(ExcOf(o.res))
                         THEN "returned" ELSE "raised"]
  /\ UNCHANGED << ioVars, tmp, sinkVars, nextConn, calls, rec, entry, fails >>

LogReturn_resend(t) ==
  /\ pc[t] = "done"
  /\ pc' = [pc EXCEPT ![t] = "idle"]
  /\ store' = IF \A i \in DOMAIN ev[t] : ev[t][i].op = "rpush" => ev[t][i].res # "ok"
                THEN [store EXCEPT ![key] = Append(@, rec[t])]
                ELSE store
  /\ rec' = [rec EXCEPT ![t] = 0]
  /\ result' = [result EXCEPT ![t] = "none"]
  /\ ev' = [ev EXCEPT ![t] = <<>>]
  /\ entry' = [entry EXCEPT ![t] = NoEntry]
  /\ UNCHANGED << ioVars, tmp, sinkVars, nextConn, calls, fails >>

\* Control is back in the caller; nothing of the call is kept.
LogReturn(t) ==
  /\ pc[t] = "done"
  /\ pc' = [pc EXCEPT ![t] = "idle"]
  /\ rec' = [rec EXCEPT ![t] = 0]
  /\ result' = [result EXCEPT ![t] = "none"]
  /\ ev' = [ev EXCEPT ![t] = <<>>]
  /\ entry' = [entry EXCEPT ![t] = NoEntry]
  /\ UNCHANGED << ioVars, tmp, sinkVars, nextConn, store, calls, fails >>

\* ------------------------------------------------------------------ ping
\* What ping() hands to its caller: True, or the exception of the connection's
\* ping, which nothing catches.
PingAnswer(o) == IF o = "ok" THEN "True" ELSE ExcOf(o)

Ping_reconnects(t) ==
  /\ sink = "ok"
  /\ \A u \in Threads : pc[u] = "idle"
  /\ \E o \in PingOutcomes :
       /\ ev' = [ev EXCEPT ![t] = << Ev("ping", conn, o, FALSE, 0) >>]
       /\ result' = [result EXCEPT ![t] = PingAnswer(o)]
       /\ conn' = IF o = "ok" THEN conn ELSE nextConn
       /\ nextConn' = IF o = "ok" THEN nextConn ELSE nextConn + 1
  /\ pc' = [pc EXCEPT ![t] = "pinged"]
  /\ entry' = [entry EXCEPT ![t] = Entry]
  /\ UNCHANGED << ioVars, tmp, sink, backoff, host, port, key, ctorPing, store,
                  calls, rec, fails >>

Ping_resets(t) ==
  /\ sink = "ok"
  /\ \A u \in Threads : pc[u] = "idle"
  /\ \E o \in PingOutcomes :
       /\ ev' = [ev EXCEPT ![t] = << Ev("ping", conn, o, FALSE, 0) >>]
       /\ result' = [result EXCEPT ![t] = PingAnswer(o)]
       /\ backoff' = IF o = "ok" THEN DEFAULT_RETRY ELSE backoff
  /\ pc' = [pc EXCEPT ![t] = "pinged"]
  /\ entry' = [entry EXCEPT ![t] = Entry]
  /\ UNCHANGED << ioVars, tmp, sink, conn, host, port, key, ctorPing, nextConn,
                  store, calls, rec, fails >>

\* ping(): return self._conn.ping(), called between log() calls.
Ping(t) ==
  /\ sink = "ok"
  /\ \A u \in Threads : pc[u] = "idle"
  /\ \E o \in PingOutcomes :
       /\ ev' = [ev EXCEPT ![t] = << Ev("ping", conn, o, FALSE, 0) >>]
       /\ result' = [result EXCEPT ![t] = PingAnswer(o)]
  /\ pc' = [pc EXCEPT ![t] = "pinged"]
  /\ entry' = [entry EXCEPT ![t] = Entry]
  /\ UNCHANGED << ioVars, tmp, sinkVars, nextConn, store, calls, rec, fails >>

\* Control is back in the caller of ping().
PingReturn(t) ==
  /\ pc[t] = "pinged"
  /\ pc' = [pc EXCEPT ![t] = "idle"]
  /\ result' = [result EXCEPT ![t] = "none"]
  /\ ev' = [ev EXCEPT ![t] = <<>>]
  /\ entry' = [entry EXCEPT ![t] = NoEntry]
  /\ UNCHANGED << ioVars, tmp, sinkVars, nextConn, store, calls, rec, fails >>

\* The steps of a call in progress, which the calling thread keeps taking.
LogStep(t) ==
  \/ LogPrimary(t)
  \/ LogSleep(t)
  \/ LogDoubleRead(t)
  \/ LogDouble(t)
  \/ LogConnect(t)
  \/ LogPing(t)
  \/ LogRetry(t)

Next ==
  \/ Construct
  \/ \E t \in Threads : LogCall(t)
  \/ \E t \in Threads : LogStep(t)
  \/ \E t \in Threads : LogReturn(t)
  \/ \E t \in Threads : Ping(t)
  \/ \E t \in Threads : PingReturn(t)

Spec == Init /\ [][Next]_vars

\* A thread inside log() keeps running: every backend operation returns or
\* fails within its socket timeout and the sleep is finite.
SpecFair == Spec /\ \A t \in Threads : WF_vars(LogStep(t))

\* ----------------------------------------------------------- concurrency
\* A thread invokes sink.log(**kwargs) whatever the other threads are doing:
\* nothing in log() keeps a second caller out. As many calls are made as
\* there are threads, so that they can all be in progress at once.
LogCallConc(t) ==
  /\ sink = "ok"
  /\ calls < Cardinality(Threads)
  /\ pc[t] = "idle"
  /\ calls' = calls + 1
  /\ pc' = [pc EXCEPT ![t] = "rpush"]
  /\ rec' = [rec EXCEPT ![t] = calls + 1]
  /\ result' = [result EXCEPT ![t] = "none"]
  /\ ev' = [ev EXCEPT ![t] = <<>>]
  /\ entry' = [entry EXCEPT ![t] = Entry]
  /\ UNCHANGED << ioVars, tmp, sinkVars, nextConn, store, fails >>

NextConc ==
  \/ Construct
  \/ \E t \in Threads : LogCallConc(t)
  \/ \E t \in Threads : LogStep(t)
  \/ \E t \in Threads : LogReturn(t)

\* The sink shared by threads that call log() concurrently.
SpecConc == Init /\ [][NextConc]_vars

\* ------------------------------------------------------------ StdoutSink
\* The records handed to the console sink: mappings from some of the keys
\* (each given by its place in OutKeys) to numbers.
OutKeys == <<"a", "b">>

OutVals == {1, 2}

OutRecords == UNION { [S -> OutVals] : S \in SUBSET DOMAIN OutKeys }

\* The items of the record r from the i-th key on, each as "key": value.
RECURSIVE Items(_, _)
Items(r, i) ==
  IF i > Len(OutKeys) THEN <<>>
  ELSE (IF i \in DOMAIN r
          THEN << << "\"", OutKeys[i], "\"", ": ", ToString(r[i]) >> >>
          ELSE <<>>) \o Items(r, i + 1)

\* The items joined by ", ".
RECURSIVE Joined(_)
Joined(items) ==
  IF items = <<>> THEN <<>>
  ELSE IF Len(items) = 1 THEN items[1]
  ELSE items[1] \o << ", " >> \o Joined(Tail(items))

\* json.dumps(kwargs): the text of the record, as the pieces it is made of.
dumps(r) == << "{" >> \o Joined(Items(r, 1)) \o << "}" >>

\* What print(text) writes: the text and a newline.
Line(text) == text \o << "\n" >>

StdoutLog_swallows(r, ok) ==
  /\ Len(stdout) < MaxLines
  /\ stdout' = IF ok THEN Append(stdout, Line(dumps(r))) ELSE stdout
  /\ outRes' = [rec |-> r, res |-> "returned"]
  /\ UNCHANGED << sinkVars, nextConn, store, calls, pc, rec, result, ev, entry,
                  fails, tmp, cfgDoc, cfgOut >>

\* StdoutSink.log(**kwargs): print(json.dumps(kwargs)); when the write fails
\* (ok is false) the exception of print leaves log, which catches nothing.
StdoutLog(r, ok) ==
  /\ Len(stdout) < MaxLines
  /\ stdout' = IF ok THEN Append(stdout, Line(dumps(r))) ELSE stdout
  /\ outRes' = [rec |-> r, res |-> IF ok THEN "returned" ELSE "IOError"]
  /\ UNCHANGED << sinkVars, nextConn, store, calls, pc, rec, result, ev, entry,
                  fails, tmp, cfgDoc, cfgOut >>

NextStdout == \E r \in OutRecords, ok \in BOOLEAN : StdoutLog(r, ok)

\* A console sink and its callers.
SpecStdout == Init /\ [][NextStdout]_vars

\* ----------------------------------------------------------- read_config
\* The contents of a config file: text that is not JSON, a JSON value that
\* is not an object (a list), or a JSON object. Of an object: the value at
\* key input and the value at key output (0: the key is absent) and whether
\* it holds other keys.
Docs ==
  { [kind |-> "garbage", input |-> 0, output |-> 0, other |-> FALSE],
    [kind |-> "list", input |-> 0, output |-> 0, other |-> FALSE] }
  \cup { [kind |-> "object", input |-> i, output |-> o, other |-> x] :
            i \in 0..MaxCfgVal, o \in 0..MaxCfgVal, x \in BOOLEAN }

\* The exit status of a process that ends by sys.exit(n): n in one byte.
ExitStatus(n) == n % 256

\* cfg['input'], cfg['output'] on the parsed document.
Lookup(d) ==
  IF d.kind = "list"
    THEN [kind |-> "raise", status |-> 0, exc |-> "TypeError", value |-> <<>>]
  ELSE IF d.input = 0 \/ d.output = 0
    THEN [kind |-> "raise", status |-> 0, exc |-> "KeyError", value |-> <<>>]
  ELSE [kind |-> "return", status |-> 0, exc |-> "", value |-> << d.input, d.output >>]

read_config_noExit(d) ==
  IF d.kind = "garbage"
    THEN [kind |-> "raise", status |-> 0, exc |-> "KeyError", value |-> <<>>]
    ELSE Lookup(d)

\* read_config(cfgfile) on a file holding d: json.loads raises ValueError on
\* text that is not JSON, and the handler ends the process with sys.exit(-1);
\* otherwise the two keys are looked up and nothing catches a failing lookup.
read_config(d) ==
  IF d.kind = "garbage"
    THEN [kind |-> "exit", status |-> ExitStatus(-1), exc |-> "SystemExit", value |-> <<>>]
    ELSE Lookup(d)

ReadConfig(d) ==
  /\ cfgDoc' = d
  /\ cfgOut' = read_config(d)
  /\ UNCHANGED << sinkVars, nextConn, store, calls, pc, rec, result, ev, entry,
                  fails, tmp, stdout, outRes >>

NextConfig == \E d \in Docs : ReadConfig(d)

\* The config loader and the files it is given.
SpecConfig == Init /\ [][NextConfig]_vars

\* ---------------------------------------------------------------- helpers
RECURSIVE Pow2(_)
Pow2(n) == IF n <= 0 THEN 1 ELSE 2 * Pow2(n - 1)

\* Positions of the events op in the trace s.
At(s, op) == { i \in DOMAIN s : s[i].op = op }

Count(s, op) == Cardinality(At(s, op))

\* Positions of the append attempts the server executed.
Applied(s) == { i \in At(s, "rpush") : s[i].applied }

\* Number of entries of the list equal to r.
Occ(list, r) == Cardinality({ i \in DOMAIN list : list[i] = r })

RECURSIVE Repeat(_, _)
Repeat(r, n) == IF n <= 0 THEN <<>> ELSE <<r>> \o Repeat(r, n - 1)

Done(t) == pc[t] = "done"

Quiet == \A t \in Threads : pc[t] \in {"idle", "done"}

\* The primary append of the call of t failed.
PrimaryFailed(t) == ev[t] # <<>> /\ ev[t][1].op = "rpush" /\ ev[t][1].res # "ok"

\* The reconnect of the call of t failed at its ping.
PingFailed(t) == \E i \in At(ev[t], "ping") : ev[t][i].res # "ok"

\* The retried append of the call of t failed.
RetryFailed(t) ==
  \E i \in At(ev[t], "rpush") : i > 1 /\ ev[t][i].res # "ok"

\* ------------------------------------------------------------------ C1
\* C1: log never raises to its caller: whatever failure (timeout, refused
\* connection, malformed response) hits the primary append, the liveness check
\* of the reconnect or the retried append, a finished call has returned normally.
C1_NeverRaises ==
  \A t \in Threads :
    /\ result[t] # "raised"
    /\ Done(t) => result[t] = "returned"

\* A call whose primary append timed out and whose retried append got a
\* malformed response has returned.
C1_Witness ==
  \E t \in Threads :
    /\ Done(t) /\ result[t] = "returned"
    /\ Len(ev[t]) = 6
    /\ ev[t][1].op = "rpush" /\ ev[t][1].res = "timeout"
    /\ ev[t][6].op = "rpush" /\ ev[t][6].res = "malformed"

\* ------------------------------------------------------------------ C2
\* C2 (as claimed): when a call that made a successful append, primary or
\* retried, is finished, the backoff is the default 10.
C2_ResetAfterAnySuccess ==
  \A t \in Threads :
    (Done(t) /\ \E i \in At(ev[t], "rpush") : ev[t][i].res = "ok")
      => backoff = DEFAULT_RETRY

\* ------------------------------------------------------------------ C3
\* C3: between calls the backoff is 10 * 2^N, N the number of calls in a row
\* whose primary append failed; a finished call whose primary append failed
\* doubled the backoff it found exactly once, whatever its reconnect and retry
\* did; nothing caps the value.
C3_BackoffGrowth ==
  /\ (sink = "ok" /\ Quiet) => backoff = DEFAULT_RETRY * Pow2(fails)
  /\ \A t \in Threads :
       (Done(t) /\ PrimaryFailed(t))
         => /\ Count(ev[t], "double") = 1
            /\ backoff = 2 * entry[t].backoff

\* Two failing calls in a row, the second delivered by its retry: backoff 40.
C3_Witness ==
  \E t \in Threads :
    /\ Done(t) /\ fails = 2 /\ backoff = 40
    /\ PrimaryFailed(t)
    /\ ev[t][Len(ev[t])].op = "rpush" /\ ev[t][Len(ev[t])].res = "ok"

\* ------------------------------------------------------------------ C4
\* C4: a call never makes more than two append attempts, and a finished call
\* all of whose appends failed while its reconnect and ping succeeded made
\* exactly two.
C4_TwoAttempts ==
  \A t \in Threads :
    /\ Count(ev[t], "rpush") <= 2
    /\ ( /\ Done(t)
         /\ \A i \in At(ev[t], "rpush") : ev[t][i].res # "ok"
         /\ \E i \in At(ev[t], "ping") : ev[t][i].res = "ok" )
       => Count(ev[t], "rpush") = 2

C4_Witness ==
  \E t \in Threads :
    /\ Done(t)
    /\ Count(ev[t], "rpush") = 2
    /\ \A i \in At(ev[t], "rpush") : ev[t][i].res = "refused"
    /\ \E i \in At(ev[t], "ping") : ev[t][i].res = "ok"

\* ------------------------------------------------------------------ C5
\* C5: the destination list holds records of calls made so far, in call order:
\* an entry of a call is never behind an entry of a later call.
C5_CallOrder ==
  \A k \in Keys :
    /\ \A i \in DOMAIN store[k] : store[k][i] \in 1..calls
    /\ \A i, j \in DOMAIN store[k] : i < j => store[k][i] <= store[k][j]

\* The second call, refused at its primary append, was delivered by its retry
\* and its record sits behind the record of the first call.
C5_Witness ==
  \E t \in Threads :
    /\ Done(t) /\ rec[t] = 2
    /\ Len(ev[t]) = 6
    /\ ev[t][1].res = "refused"
    /\ ev[t][6].op = "rpush" /\ ev[t][6].res = "ok"
    /\ store[key] = <<1, 2>>

\* ------------------------------------------------------------------ C6
\* C6: when the ping of the constructor fails the constructor raises and no
\* sink is obtained; a sink that was obtained passed that ping, holds a
\* connection, and has backoff 10 until its first log call.
C6_ConstructFailsFatally ==
  /\ ctorPing \in Failures => sink = "failed"
  /\ sink = "ok" => (ctorPing = "ok" /\ conn # None)
  /\ (sink = "ok" /\ calls = 0) => backoff = DEFAULT_RETRY
  /\ sink # "ok" => calls = 0

\* The constructor's ping was refused and there is no sink.
C6_Witness == ctorPing = "refused" /\ sink = "failed" /\ calls = 0

\* ------------------------------------------------------------------ C7
\* Every backend operation of the call of t found the backend unreachable:
\* it was refused or timed out, and the server executed nothing.
Unreachable(t) ==
  /\ ev[t] # <<>>
  /\ \A i \in At(ev[t], "rpush") \cup At(ev[t], "ping") :
       ev[t][i].res \in {"refused", "timeout"} /\ ~ev[t][i].applied

\* C7: a finished call that found backoff 10 and an unreachable backend slept
\* once, for 10 seconds, made exactly one reconnect attempt, left the backing
\* store as it was (its record is not in it) and returned normally.
C7_UnreachableOnce ==
  \A t \in Threads :
    (Done(t) /\ entry[t].backoff = DEFAULT_RETRY /\ Unreachable(t))
      => /\ Count(ev[t], "sleep") = 1
         /\ \A i \in At(ev[t], "sleep") : ev[t][i].secs = 10
         /\ Count(ev[t], "connect") = 1
         /\ Count(ev[t], "ping") = 1
         /\ store = entry[t].store
         /\ Occ(store[key], rec[t]) = 0
         /\ result[t] = "returned"

\* The first call on a fresh sink, with primary append and reconnect refused.
C7_Witness ==
  \E t \in Threads :
    /\ Done(t) /\ rec[t] = 1 /\ Unreachable(t)
    /\ entry[t].backoff = DEFAULT_RETRY
    /\ Len(ev[t]) = 5
    /\ ev[t][1].res = "refused"
    /\ ev[t][5].op = "ping" /\ ev[t][5].res = "refused"

\* ------------------------------------------------------------------ C8
\* C8: the sleep of a failing call lasts the backoff found at entry, the value
\* before the doubling: 10 * 2^(k-1) in the k-th failing call in a row; the
\* sleep comes before the doubling and both before the reconnect.
C8_SleepBeforeDoubling ==
  \A t \in Threads :
    /\ \A i \in At(ev[t], "sleep") :
         /\ ev[t][i].secs = entry[t].backoff
         /\ ev[t][i].secs = DEFAULT_RETRY * Pow2(fails - 1)
    /\ \A i \in At(ev[t], "double") : \E j \in At(ev[t], "sleep") : j < i
    /\ \A i \in At(ev[t], "connect") :
         /\ \E j \in At(ev[t], "sleep") : j < i
         /\ \E j \in At(ev[t], "double") : j < i
    /\ pc[t] \in {"connect", "ping", "retry"} => Count(ev[t], "sleep") = 1
    /\ (Done(t) /\ PrimaryFailed(t)) => Count(ev[t], "sleep") = 1

\* The second failing call in a row has slept 20 seconds and reconnects.
C8_Witness ==
  \E t \in Threads :
    /\ fails = 2 /\ pc[t] = "ping"
    /\ \E i \in At(ev[t], "sleep") : ev[t][i].secs = 20

\* ------------------------------------------------------------------ C9
\* C9 (as claimed): when the reconnect or the retried append of a finished call
\* failed, the record of the call is not in the destination list.
C9_DroppedForGood ==
  \A t \in Threads :
    (Done(t) /\ (PingFailed(t) \/ RetryFailed(t)))
      => Occ(store[key], rec[t]) = 0

\* When the reconnect or the retried append of a finished call failed, the
\* list is the list found at entry followed by one copy of the record per
\* append attempt the server executed, none if it executed none; the lists at
\* other keys are as found.
C9_GivenUp ==
  \A t \in Threads :
    (Done(t) /\ (PingFailed(t) \/ RetryFailed(t)))
      => /\ store[key] =
              entry[t].store[key] \o Repeat(rec[t], Cardinality(Applied(ev[t])))
         /\ \A k \in Keys \ {key} : store[k] = entry[t].store[k]
         /\ Applied(ev[t]) = {} => Occ(store[key], rec[t]) = 0
         /\ Occ(entry[t].store[key], rec[t]) = 0

\* A step changes the list only by adding, at its tail, the record of a call
\* that is at one of its two append attempts.
C9_OnlyOwnAppend ==
  \A k \in Keys :
    store'[k] # store[k]
      => \E t \in Threads :
           /\ pc[t] \in {"rpush", "retry"}
           /\ k = key
           /\ store'[k] = Append(store[k], rec[t])

\* C9 (amended): a call whose reconnect or retried append failed makes no
\* further attempt: the list holds its record only as often as the server
\* executed an append attempt of that very call (not at all when it executed
\* none), no other record is lost, and no later call or other operation ever
\* adds the record.
C9_DroppedUnlessExecuted == []C9_GivenUp /\ [][C9_OnlyOwnAppend]_vars

\* A call behind a delivered one was refused at both attempts: its record is
\* not in the list and the earlier record still is.
C9_Witness ==
  \E t \in Threads :
    /\ Done(t) /\ rec[t] = 2 /\ RetryFailed(t)
    /\ Applied(ev[t]) = {}
    /\ store[key] = <<1>>

\* ----------------------------------------------------------------- C10
C10_Bounded ==
  \A t \in Threads :
    /\ Count(ev[t], "sleep") <= 1
    /\ Count(ev[t], "connect") <= 1
    /\ Count(ev[t], "ping") <= 1
    /\ Count(ev[t], "rpush") <= 2
    /\ Len(ev[t]) <= 6

\* C10: every log call finishes, after at most one sleep, one reconnect
\* attempt and two append attempts.
C10_Terminates ==
  /\ []C10_Bounded
  /\ \A t \in Threads : (pc[t] = "rpush") ~> Done(t)

\* A finished call that slept once, reconnected once and appended twice.
C10_Witness ==
  \E t \in Threads :
    /\ Done(t) /\ result[t] = "returned"
    /\ Count(ev[t], "sleep") = 1
    /\ Count(ev[t], "connect") = 1
    /\ Count(ev[t], "rpush") = 2

C12_HoldsNewest ==
  /\ sink = "none" => conn = None
  /\ sink # "none" => (conn # None /\ conn = nextConn - 1)
  /\ \A t \in Threads :
       Done(t) =>
         /\ \A i \in At(ev[t], "connect") :
              conn = ev[t][i].conn /\ conn # entry[t].conn
         /\ PrimaryFailed(t) => Count(ev[t], "connect") = 1

\* The connection changes only by construction or by the reconnect of a log
\* call, always to a freshly built object, and every reconnect changes it.
C12_ReplacedByFresh ==
  /\ conn' # conn
       => /\ conn' = nextConn /\ nextConn' = nextConn + 1
          /\ sink = "none" \/ \E t \in Threads : pc[t] = "connect"
  /\ \A t \in Threads :
       (pc[t] = "connect" /\ pc'[t] # "connect") => conn' # conn

\* C12: a constructed sink holds one connection, built at construction and
\* replaced by a freshly built one on every reconnect attempt whether its ping
\* succeeds or fails; a previous connection is never restored.
C12_OneConnection == []C12_HoldsNewest /\ [][C12_ReplacedByFresh]_vars

\* A finished call whose reconnect failed at the ping holds the connection
\* that reconnect built.
C12_Witness ==
  \E t \in Threads :
    /\ Done(t) /\ PingFailed(t)
    /\ entry[t].conn = 1 /\ conn = 2
    /\ \E i \in At(ev[t], "connect") : ev[t][i].conn = 2

\* ----------------------------------------------------------------- C13
\* Thread t pinged or retried on a connection that is not the one its own
\* reconnect built.
UsedForeignConnection(t) ==
  \E i \in At(ev[t], "connect") :
    \E j \in At(ev[t], "ping") \cup At(ev[t], "rpush") :
      j > i /\ ev[t][j].conn # ev[t][i].conn

\* C13: with concurrent callers the doubling and the replacement of the
\* connection race, within these limits: the backoff stays 10 * 2^k; two
\* finished calls whose primary appends failed leave it at 20 (a doubling
\* was lost) or 40, and each doubled once; a call pings and retries on the
\* connection its own reconnect built or on one that a reconnect of another
\* call built after it, never on the one whose append failed.
C13_RaceLimits ==
  /\ sink = "ok" => \E k \in 0..calls : backoff = DEFAULT_RETRY * Pow2(k)
  /\ (\A t \in Threads : Done(t) /\ PrimaryFailed(t))
       => /\ backoff \in {2 * DEFAULT_RETRY, 4 * DEFAULT_RETRY}
          /\ \A t \in Threads : Count(ev[t], "double") = 1
  /\ \A t \in Threads :
       \A j \in At(ev[t], "ping") \cup At(ev[t], "rpush") :
         j > 1 => /\ ev[t][j].conn < nextConn
                  /\ ev[t][j].conn > ev[t][1].conn
                  /\ \E i \in At(ev[t], "connect") :
                       i < j /\ ev[t][j].conn >= ev[t][i].conn

\* Two calls whose primary appends failed have finished and the backoff is
\* 20, not 40: both read 10 before either assigned; and one of them pinged
\* on the connection the reconnect of the other had put in place of its own.
C13_Witness ==
  /\ \A t \in Threads : Done(t) /\ PrimaryFailed(t)
  /\ backoff = 2 * DEFAULT_RETRY
  /\ \E t \in Threads : UsedForeignConnection(t)

\* ----------------------------------------------------------------- C14
\* A call of StdoutSink.log that returned added one line, the JSON text of
\* its record and a newline, behind the lines of the earlier calls; one whose
\* write failed handed the error to its caller and wrote nothing; no call
\* touches anything else.
C14_Step ==
  /\ outRes' # outRes \/ stdout' # stdout
       => /\ outRes'.res \in {"returned", "IOError"}
          /\ outRes'.res = "returned"
               => stdout' = Append(stdout, Line(dumps(outRes'.rec)))
          /\ outRes'.res = "IOError" => stdout' = stdout
  /\ UNCHANGED << sinkVars, store, calls, pc, ev >>

\* Every line is the JSON text of a record, closed by a newline; the record
\* {"a": 1} gives the line {"a": 1}.
C14_Lines ==
  /\ \A i \in DOMAIN stdout :
       /\ \E r \in OutRecords : stdout[i] = Line(dumps(r))
       /\ stdout[i][1] = "{"
       /\ stdout[i][Len(stdout[i]) - 1] = "}"
       /\ stdout[i][Len(stdout[i])] = "\n"
  /\ outRes.res = "returned"
       => /\ stdout # <<>>
          /\ stdout[Len(stdout)] = Line(dumps(outRes.rec))
          /\ (DOMAIN outRes.rec = {1} /\ outRes.rec[1] = 1)
               => stdout[Len(stdout)] = << "{", "\"", "a", "\"", ": ", "1", "}", "\n" >>

\* C14: StdoutSink.log writes one line per call, the JSON text of the record,
\* in call order, keeps no state and handles no failure: a failing write
\* leaves log as an exception, and nothing is slept, retried or dropped.
C14_OneLinePerCall == []C14_Lines /\ [][C14_Step]_vars

\* Two calls returned and a third failed at the write: two lines, in order.
C14_Witness ==
  /\ Len(stdout) = 2
  /\ stdout[1] = << "{", "\"", "a", "\"", ": ", "1", "}", "\n" >>
  /\ stdout[2] = << "{", "\"", "a", "\"", ": ", "2", ", ", "\"", "b", "\"", ": ", "1", "}", "\n" >>
  /\ outRes.res = "IOError"

\* ----------------------------------------------------------------- C15
\* C15 (as claimed): read_config ends the process with a nonzero status when
\* the document is not JSON, and otherwise returns the values at input and
\* output.
C15_ExitOrPair ==
  cfgOut.kind # "none"
    => IF cfgDoc.kind = "garbage"
         THEN cfgOut.kind = "exit" /\ cfgOut.status # 0
         ELSE cfgOut.kind = "return"
              /\ cfgOut.value = << cfgDoc.input, cfgDoc.output >>

\* C15 (amended): read_config ends the process with status 255 when the
\* document is not JSON; returns the values at input and output when it is a
\* JSON object holding both keys, whatever else it holds; and otherwise (a
\* JSON value that is no object, or an object lacking one of the keys) raises
\* TypeError or KeyError to its caller, without ending the process itself.
C15_ExitPairOrRaise ==
  cfgOut.kind # "none"
    => /\ cfgDoc.kind = "garbage"
            => cfgOut.kind = "exit" /\ cfgOut.status = 255
       /\ (cfgDoc.kind = "object" /\ cfgDoc.input # 0 /\ cfgDoc.output # 0)
            => /\ cfgOut.kind = "return"
               /\ cfgOut.value = << cfgDoc.input, cfgDoc.output >>
       /\ cfgDoc.kind = "list"
            => cfgOut.kind = "raise" /\ cfgOut.exc = "TypeError"
       /\ (cfgDoc.kind = "object" /\ (cfgDoc.input = 0 \/ cfgDoc.output = 0))
            => cfgOut.kind = "raise" /\ cfgOut.exc = "KeyError"

\* A file that is not JSON ended the process with status 255.
C15_Witness ==
  cfgDoc.kind = "garbage" /\ cfgOut.kind = "exit" /\ cfgOut.status = 255

\* ----------------------------------------------------------------- C16
\* C16: a finished call made the retried append exactly when its primary
\* append failed and the ping of its reconnect succeeded; the retried append
\* went to the connection the reconnect built, not to the one whose append
\* failed; a call whose reconnect failed made one append attempt only.
C16_RetryIffReconnected ==
  \A t \in Threads :
    /\ Done(t) =>
         /\ (Count(ev[t], "rpush") = 2)
              <=> (PrimaryFailed(t) /\ \E i \in At(ev[t], "ping") : ev[t][i].res = "ok")
         /\ PingFailed(t) => Count(ev[t], "rpush") = 1
         /\ ~PrimaryFailed(t) => Count(ev[t], "rpush") = 1
    /\ \A j \in At(ev[t], "rpush") :
         j > 1 => /\ ev[t][j].conn # ev[t][1].conn
                  /\ \E i \in At(ev[t], "connect") :
                       i < j /\ ev[t][j].conn = ev[t][i].conn
                  /\ \E i \in At(ev[t], "ping") :
                       /\ i < j /\ ev[t][i].res = "ok"
                       /\ ev[t][i].conn = ev[t][j].conn

\* A call retried on connection 2 after its append on connection 1 timed out.
C16_Witness ==
  \E t \in Threads :
    /\ Done(t) /\ Len(ev[t]) = 6
    /\ ev[t][1].conn = 1 /\ ev[t][1].res = "timeout"
    /\ ev[t][6].op = "rpush" /\ ev[t][6].conn = 2

\* ----------------------------------------------------------------- C17
\* A finished call whose primary append succeeded did that one append and
\* nothing else, and the connection, host, port and key are as it found them.
C17_SuccessDoesNothingElse ==
  \A t \in Threads :
    (Done(t) /\ ~PrimaryFailed(t))
      => /\ Len(ev[t]) = 1
         /\ ev[t][1].op = "rpush" /\ ev[t][1].res = "ok"
         /\ ev[t][1].conn = entry[t].conn
         /\ conn = entry[t].conn
         /\ host = entry[t].host /\ port = entry[t].port /\ key = entry[t].key
         /\ result[t] = "returned"

\* The connection is replaced only by the constructor or inside a log call
\* whose primary append failed; host, port and key are set by the constructor
\* alone.
C17_ReconnectOnlyAfterFailure ==
  /\ conn' # conn
       => \/ sink = "none"
          \/ \E t \in Threads : pc[t] = "connect" /\ PrimaryFailed(t)
  /\ << host, port, key >>' # << host, port, key >> => sink = "none"

\* C17: a log call whose primary append succeeds makes one append attempt,
\* no sleep, no reconnect and no ping, and leaves connection, host, port and
\* key alone; a reconnect happens only in a log call whose primary append
\* failed, or at construction.
C17_PrimarySuccessFrame ==
  []C17_SuccessDoesNothingElse /\ [][C17_ReconnectOnlyAfterFailure]_vars

\* A call delivered at once, after an earlier call had reconnected.
C17_Witness ==
  \E t \in Threads :
    /\ Done(t) /\ ~PrimaryFailed(t) /\ Len(ev[t]) = 1
    /\ rec[t] = 2 /\ conn = 2 /\ entry[t].conn = 2
    /\ store[key] = <<2>>

\* ----------------------------------------------------------------- C18
\* C18 (as claimed): the list holds at most one copy of the record of each
\* call, and no more entries than there were calls.
C18_AtMostOneCopy ==
  \A k \in Keys :
    /\ \A r \in 1..calls : Occ(store[k], r) <= 1
    /\ Len(store[k]) <= calls

\* C18 (amended): the list holds one copy of a call's record per append
\* attempt of that call that the server executed: at most two, and two only
\* when the primary append failed at the client, by timeout or malformed
\* response, after the server had executed it, and the retried append was
\* executed too; the list never holds more than two entries per call.
C18_OneCopyPerExecutedAttempt ==
  /\ \A k \in Keys :
       /\ \A r \in 1..calls : Occ(store[k], r) <= 2
       /\ Len(store[k]) <= 2 * calls
  /\ \A t \in Threads :
       rec[t] # 0
         => /\ Occ(store[key], rec[t]) = Cardinality(Applied(ev[t]))
            /\ \A k \in Keys \ {key} : Occ(store[k], rec[t]) = 0
            /\ Occ(store[key], rec[t]) = 2
                 => /\ ev[t][1].res \in {"timeout", "malformed"}
                    /\ ev[t][1].applied
                    /\ Count(ev[t], "rpush") = 2
            /\ (ev[t] # <<>> /\ ~ev[t][1].applied)
                 => Occ(store[key], rec[t]) <= 1

\* The primary append timed out after the server had executed it and the
\* retried append succeeded: the record is in the list twice.
C18_Witness ==
  \E t \in Threads :
    /\ Done(t) /\ Len(ev[t]) = 6
    /\ ev[t][1].res = "timeout" /\ ev[t][1].applied
    /\ ev[t][6].res = "ok"
    /\ store[key] = << rec[t], rec[t] >>

\* ----------------------------------------------------------------- C19
\* Once the constructor ran, the backoff is 10 * 2^k for some k >= 0.
C19_PowerOfTwoTimesDefault ==
  sink # "none"
    => /\ \E k \in 0..calls : backoff = DEFAULT_RETRY * Pow2(k)
       /\ backoff >= DEFAULT_RETRY

\* The constructor sets the backoff to 10; after it only log changes it, at
\* its primary append and at its doubling: no ping() and no reconnect does.
C19_OnlyLogChanges ==
  /\ (sink = "none" /\ sink' # "none") => backoff' = DEFAULT_RETRY
  /\ (sink # "none" /\ backoff' # backoff)
       => \E t \in Threads :
            \/ pc[t] = "rpush" /\ backoff' = DEFAULT_RETRY
            \/ pc[t] = "assign" /\ backoff' = 2 * backoff
  /\ \A t \in Threads :
       (pc'[t] = "pinged" \/ pc[t] \in {"connect", "ping"}) => backoff' = backoff

\* C19: with sequential callers the backoff is always 10 * 2^k, k >= 0, never
\* below 10; the constructor sets it to 10 and only log changes it: ping and
\* a reconnect, failed or successful, leave it alone.
C19_BackoffShape == []C19_PowerOfTwoTimesDefault /\ [][C19_OnlyLogChanges]_vars

\* After two failed calls a ping succeeded and the backoff is still 40.
C19_Witness ==
  \E t \in Threads :
    /\ pc[t] = "pinged" /\ result[t] = "True"
    /\ fails = 2 /\ backoff = 4 * DEFAULT_RETRY

====
